---- MODULE Spec2Model ----
(***************************************************************************)
(* Model of renderer/src/gl/sync_state.cpp: the per-draw texture/surface   *)
(* resolver (sync_texture) and the vertex stream staging and attribute     *)
(* layout translation (sync_vertex_streams_and_attributes).                *)
(***************************************************************************)
EXTENDS Integers, Sequences, FiniteSets, TLC

(***************************************************************************)
(* Host enumerants used by sync_texture.                                   *)
(***************************************************************************)
GL_ZERO == 0
GL_ONE == 1
GL_RED == 6403
GL_GREEN == 6404
GL_BLUE == 6405
GL_ALPHA == 6406
GL_NEAREST == 9728
GL_LINEAR == 9729

SCE_GXM_MAX_TEXTURE_UNITS == 16

\* "no pointer" result of a swizzle table lookup
NULL == <<>>

default_rgba == <<GL_RED, GL_GREEN, GL_BLUE, GL_ALPHA>>

(***************************************************************************)
(* Bounds of the texture model.                                            *)
(***************************************************************************)
\* number of guest texture addresses
NumAddrFields == 2
\* distance between two guest texture address fields (address = field << 2)
AddrStep == 64
\* texture width in pixels
TexWidth == 20
\* texture height in pixels
TexHeight == 2
\* byte stride of a LINEAR_STRIDED texture
TexStrideBytes == 64
\* length in bytes of one mapped guest memory block
BlockLen == 256
\* number of guest memory blocks the guest frees and maps again
MaxFreed == 1

\* texture unit indices passed to sync_texture: one fragment unit, one vertex unit
Units == {0, SCE_GXM_MAX_TEXTURE_UNITS}

AddrFields == {AddrStep * k : k \in 1..NumAddrFields}

\* Address data_addr = texture.data_addr << 2; data_addr is a 30-bit field, so
\* the shift never leaves the 32-bit Address
ShiftAddr(field) == field * 4

Addrs == {ShiftAddr(f) : f \in AddrFields}

FreeableBlocks == {ShiftAddr(AddrStep * k) : k \in 1..MaxFreed} \cap Addrs

(***************************************************************************)
(* Texture formats: a format is a base format and a swizzle mode.          *)
(***************************************************************************)
BaseFormats == {"U8U8U8U8", "F32", "P8", "X8U24"}
SwizzleModes == {"ABGR", "ARGB", "1BGR"}

Formats ==
    {[base |-> "U8U8U8U8", swz |-> "ABGR"],
     [base |-> "F32", swz |-> "1BGR"],
     [base |-> "P8", swz |-> "ABGR"],
     [base |-> "X8U24", swz |-> "ABGR"]}

get_base_format(format) == format.base

is_paletted_format(base_format) == base_format \in {"P8", "P4"}

bits_per_pixel(base_format) ==
    CASE base_format = "U8U8U8U8" -> 32
      [] base_format = "F32" -> 32
      [] base_format = "X8U24" -> 32
      [] base_format = "P8" -> 8
      [] OTHER -> 8

\* size in bytes of the texel data of a texture
texture_size(texture) ==
    texture.width * texture.height * ((bits_per_pixel(texture.format.base) + 7) \div 8)

\* convert_base_texture_format_to_base_color_format: the target color base
\* format, or "NONE" when the base format has no color equivalent
convert_base_texture_format_to_base_color_format(base_format) ==
    IF base_format \in {"U8U8U8U8", "F32"} THEN base_format ELSE "NONE"

is_write_surface_non_linearity_filtering(color_base_format) ==
    color_base_format = "F32"

\* table of a 4-channel swizzle mode (texture::translate_swizzle and
\* color::translate_swizzle agree on these modes)
translate_swizzle(format) ==
    CASE format.swz = "ABGR" -> <<GL_RED, GL_GREEN, GL_BLUE, GL_ALPHA>>
      [] format.swz = "ARGB" -> <<GL_BLUE, GL_GREEN, GL_RED, GL_ALPHA>>
      [] format.swz = "1BGR" -> <<GL_RED, GL_GREEN, GL_BLUE, GL_ONE>>
      [] OTHER -> NULL

align(value, to) == ((value + to - 1) \div to) * to

(***************************************************************************)
(* Texture descriptors (SceGxmTexture) passed to sync_texture.             *)
(***************************************************************************)
TextureTypes == {"LINEAR", "LINEAR_STRIDED", "TILED", "SWIZZLED"}

Textures ==
    {t \in [data_addr : AddrFields, format : Formats, texture_type : TextureTypes,
            width : {TexWidth}, height : {TexHeight},
            stride_in_bytes : {TexStrideBytes}, palette_addr : {0, 1}] :
        /\ (t.palette_addr = 0 => is_paletted_format(t.format.base))
        /\ (t.texture_type # "LINEAR" =>
                /\ t.format = [base |-> "U8U8U8U8", swz |-> "ABGR"]
                /\ t.data_addr = AddrStep)}

NoFormat == [base |-> "NONE", swz |-> "NONE"]

(***************************************************************************)
(* Surface cache entries and host texture handles.                         *)
(***************************************************************************)
\* host texture names of the surfaces the cache owns
SurfaceHandles == {1, 2, 3}

\* host texture name the texture cache binds for a guest texture
TextureCacheHandle(texture) == 10 + texture.data_addr

Handles == SurfaceHandles \cup {TextureCacheHandle(t) : t \in Textures}

\* render targets a scene can begin with: the color surface, its host
\* attachment, and an optional depth/stencil surface
Scenes ==
    {[address |-> ShiftAddr(AddrStep), colorFormat |-> [base |-> "U8U8U8U8", swz |-> "ARGB"],
      attachment |-> 1, ds_address |-> 0, ds_handle |-> 0],
     [address |-> ShiftAddr(2 * AddrStep), colorFormat |-> [base |-> "F32", swz |-> "1BGR"],
      attachment |-> 2, ds_address |-> ShiftAddr(AddrStep), ds_handle |-> 3]}

ColorEntry(scene) ==
    [address |-> scene.address, width |-> TexWidth, height |-> TexHeight,
     stride |-> align(TexWidth, 8), format |-> scene.colorFormat.base,
     handle |-> scene.attachment, swizzle |-> scene.colorFormat.swz]

DepthStencilEntry(scene) ==
    [address |-> scene.ds_address, width |-> TexWidth, height |-> TexHeight,
     handle |-> scene.ds_handle]

NoQuery == [address |-> 0, width |-> 0, height |-> 0, stride |-> 0, format |-> "NONE"]

\* a swizzle channel, or a filter, that the call did not write
Untouched == 0 - 1

VARIABLES
    mem_blocks,                 \* MemState: base addresses of the mapped blocks
    color_surface,              \* context.record.color_surface: address, colorFormat
    current_color_attachment,   \* context.current_color_attachment
    color_surfaces,             \* state.surface_cache: color entries
    ds_surfaces,                \* state.surface_cache: depth/stencil entries
    texture_cache,              \* config.texture_cache
    self_sampling_indices,      \* context.self_sampling_indices
    fragment_textures,          \* context.shader_hints.fragment_textures
    vertex_textures,            \* context.shader_hints.vertex_textures
    gl_bound,                   \* host: texture bound to each unit
    passed_match,               \* per unit: the latest descriptor passed had the color surface address
    accepted_match,             \* per unit: the latest descriptor not rejected had it
    last                        \* the latest call: its arguments and the host calls it made

\* the channel mappings are 4-entry tuples over these values
Channels == {GL_RED, GL_GREEN, GL_BLUE, GL_ALPHA, GL_ZERO, GL_ONE}

VARIABLES
    sw_base,                    \* swizzle reconciliation: base format of the texture
    sw_declared,                \* its declared swizzle (texture::translate_swizzle)
    sw_surface,                 \* the resolved surface's swizzle, or NULL
    sw_params,                  \* host: swizzle parameters of the bound surface texture
    sw_first,                   \* the parameters after the first reconciliation
    sw_applied                  \* number of reconciliations made

VARIABLES
    at_attribute,               \* attribute layout: SceGxmVertexAttribute
    at_info,                    \* shader::usse::AttributeInformation
    at_stream,                  \* SceGxmVertexStream
    at_base,                    \* offset_in_buffer of the attribute's stream
    at_bindings                 \* host: the calls made for the attribute

VARIABLES
    vertex_program,             \* state.vertex_program
    stripped_symbols_checked,   \* glvert->stripped_symbols_checked
    attribute_infos,            \* glvert->attribute_infos
    vertex_streams,             \* state.vertex_streams: data pointer and size
    ring_cursor,                \* context.vertex_stream_ring_buffer: first free offset
    staged_offset,              \* ring offset each stream's data was last copied to
    vlast                       \* the latest call: allocations, copies, host calls

texture_vars == <<mem_blocks, color_surface, current_color_attachment, color_surfaces,
                  ds_surfaces, texture_cache, self_sampling_indices, fragment_textures,
                  vertex_textures, gl_bound, passed_match, accepted_match, last>>

swizzle_vars == <<sw_base, sw_declared, sw_surface, sw_params, sw_first, sw_applied>>

attribute_vars == <<at_attribute, at_info, at_stream, at_base, at_bindings>>

vertex_vars == <<vertex_program, stripped_symbols_checked, attribute_infos,
                 vertex_streams, ring_cursor, staged_offset, vlast>>

vars == <<texture_vars, swizzle_vars, attribute_vars, vertex_vars>>


(***************************************************************************)
(* External collaborators of sync_texture.                                 *)
(***************************************************************************)
is_valid_addr_range(mem, start, end) ==
    \E b \in mem : b <= start /\ end <= b + BlockLen

retrieve_color_surface_texture_handle(surfaces, width, height, stride, format, address) ==
    LET hits == {e \in surfaces : /\ e.address = address /\ e.width = width
                                  /\ e.height = height /\ e.stride = stride
                                  /\ e.format = format}
    IN IF hits = {} THEN [handle |-> 0, swizz_raw |-> "ABGR"]
       ELSE LET e == CHOOSE x \in hits : TRUE
            IN [handle |-> e.handle, swizz_raw |-> e.swizzle]

retrieve_depth_stencil_texture_handle(surfaces, address, width, height) ==
    LET hits == {e \in surfaces : /\ e.address = address /\ e.width = width
                                  /\ e.height = height}
    IN IF hits = {} THEN 0 ELSE (CHOOSE x \in hits : TRUE).handle

(***************************************************************************)
(* sync_texture, step by step.                                             *)
(***************************************************************************)
\* mutant: the null palette check is missing
IsRejected_RangeOnly(mem, texture) ==
    ~is_valid_addr_range(mem, ShiftAddr(texture.data_addr),
                         ShiftAddr(texture.data_addr) + texture_size(texture))

\* the descriptor is rejected before anything is touched
IsRejected(mem, texture) ==
    LET data_addr == ShiftAddr(texture.data_addr)
    IN \/ ~is_valid_addr_range(mem, data_addr, data_addr + texture_size(texture))
       \/ (is_paletted_format(get_base_format(texture.format)) /\ texture.palette_addr = 0)

\* mutant: a range test in place of the equality
IsSelfSample_Loose(surface_address, data_addr) == surface_address <= data_addr

\* the texture is the color surface being rendered to
IsSelfSample(surface_address, data_addr) == surface_address = data_addr

\* mutant: push_back without the find
SelfSamplingInsert_NoFind(indices, index) == Append(indices, index)

\* std::find + push_back
SelfSamplingInsert(indices, index) ==
    IF \E k \in 1..Len(indices) : indices[k] = index THEN indices
    ELSE Append(indices, index)

\* mutant: the erase is missing
SelfSamplingErase_NoErase(indices, index) == indices

\* std::find + erase of the first occurrence
SelfSamplingErase(indices, index) ==
    IF \E k \in 1..Len(indices) : indices[k] = index
    THEN LET pos == CHOOSE k \in 1..Len(indices) :
                        indices[k] = index /\ \A m \in 1..(k - 1) : indices[m] # index
         IN SubSeq(indices, 1, pos - 1) \o SubSeq(indices, pos + 1, Len(indices))
    ELSE indices

\* effective row stride in pixels of the texture, as a 16-bit value
StrideInPixels(texture) ==
    LET width == texture.width % 65536
        bytes_per_pixel == (bits_per_pixel(get_base_format(texture.format)) + 7) \div 8
    IN CASE texture.texture_type = "LINEAR_STRIDED" ->
                ((texture.stride_in_bytes % 65536) \div bytes_per_pixel) % 65536
         [] texture.texture_type = "LINEAR" -> align(width, 8) % 65536
         [] texture.texture_type = "TILED" -> align(width, 32) % 65536
         [] OTHER -> width

\* key of the color surface cache query made for the texture
ColorQueryKey(texture) ==
    [address |-> ShiftAddr(texture.data_addr), width |-> texture.width % 65536,
     height |-> texture.height % 65536, stride |-> StrideInPixels(texture),
     format |-> convert_base_texture_format_to_base_color_format(get_base_format(texture.format))]

\* key of the depth/stencil surface cache query made for the texture
DepthStencilQueryKey(texture) ==
    [address |-> ShiftAddr(texture.data_addr), width |-> texture.width % 65536,
     height |-> texture.height % 65536, stride |-> 0, format |-> "DS"]

\* the color surface cache is asked only for color-convertible base formats
WantColorLookup(base_format) ==
    convert_base_texture_format_to_base_color_format(base_format) # "NONE"

\* mutant: the depth/stencil lookup is made whatever was found
WantDepthStencilLookup_Always(texture_as_surface) == TRUE

\* "Try to retrieve S24D8 texture": only when nothing was found so far
WantDepthStencilLookup(texture_as_surface) == texture_as_surface = 0

\* mutant: the upload is made whatever was found
NeedsUpload_Always(texture_as_surface) == TRUE

\* the texture cache (or the direct bind) is used when no surface was found
NeedsUpload(texture_as_surface) == ~(texture_as_surface # 0)

\* one output channel of the remap loop; prev is the channel's value before
RemapChannel(swizzle, swizzle_surface, i, prev) ==
    IF (swizzle[i] < GL_RED) \/ (swizzle[i] > GL_ALPHA) THEN swizzle[i]
    ELSE IF \E j \in 1..4 : swizzle[i] = swizzle_surface[j]
         THEN LET j == CHOOSE k \in 1..4 : /\ swizzle[i] = swizzle_surface[k]
                                           /\ \A m \in 1..(k - 1) : swizzle[i] # swizzle_surface[m]
              IN GL_RED + (j - 1)
         ELSE prev[i]

\* mutant: equal swizzles apply the declared swizzle, not the identity
ReconcileSwizzle_Declared(base_format, swizzle, swizzle_surface, prev) ==
    IF base_format = "X8U24" THEN prev
    ELSE IF swizzle = NULL THEN prev
    ELSE IF swizzle_surface = NULL THEN swizzle
    ELSE IF swizzle_surface # swizzle
         THEN [i \in 1..4 |-> RemapChannel(swizzle, swizzle_surface, i, prev)]
         ELSE swizzle

\* swizzle parameters of the bound surface texture after the call
ReconcileSwizzle(base_format, swizzle, swizzle_surface, prev) ==
    IF base_format = "X8U24" THEN prev
    ELSE IF swizzle = NULL THEN prev
    ELSE IF swizzle_surface = NULL THEN swizzle
    ELSE IF swizzle_surface # swizzle
         THEN [i \in 1..4 |-> RemapChannel(swizzle, swizzle_surface, i, prev)]
         ELSE default_rgba

\* min and mag filter of the bound surface texture after the call
ApplyFilter(only_nearest, prev) ==
    IF only_nearest THEN [min |-> GL_NEAREST, mag |-> GL_NEAREST] ELSE prev

NoParams == [min |-> Untouched, mag |-> Untouched,
             swizzle |-> <<Untouched, Untouched, Untouched, Untouched>>]

NoTexture ==
    [data_addr |-> 0, format |-> NoFormat, texture_type |-> "NONE", width |-> 0,
     height |-> 0, stride_in_bytes |-> 0, palette_addr |-> 0]

NoCall ==
    [op |-> "none", index |-> 0, texture |-> NoTexture, rejected |-> FALSE,
     surface_address |-> 0, repeated |-> FALSE, self_sample |-> FALSE,
     color_query |-> NoQuery, color_hit |-> FALSE,
     ds_query |-> NoQuery, ds_hit |-> FALSE,
     bind |-> 0, swizzle_surface |-> NULL, only_nearest |-> FALSE,
     params |-> NoParams, upload |-> "none"]

\* the call has the unit and the descriptor of the call right before it
IsRepeat(index, texture) ==
    last.op = "sync_texture" /\ last.index = index /\ last.texture = texture

\* everything one call of sync_texture decides, from the state it reads
Resolve(index, texture) ==
    LET data_addr == ShiftAddr(texture.data_addr)
        base_format == get_base_format(texture.format)
        target == convert_base_texture_format_to_base_color_format(base_format)
        self == IsSelfSample(color_surface.address, data_addr)
        want_color == ~self /\ WantColorLookup(base_format)
        color == IF want_color
                 THEN retrieve_color_surface_texture_handle(color_surfaces,
                          texture.width % 65536, texture.height % 65536,
                          StrideInPixels(texture), target, data_addr)
                 ELSE [handle |-> 0, swizz_raw |-> "ABGR"]
        after_color == IF self THEN current_color_attachment ELSE color.handle
        want_ds == ~self /\ WantDepthStencilLookup(after_color)
        ds == IF want_ds
              THEN retrieve_depth_stencil_texture_handle(ds_surfaces, data_addr,
                       texture.width % 65536, texture.height % 65536)
              ELSE 0
        texture_as_surface == IF want_ds THEN ds ELSE after_color
        swizzle_surface ==
            IF self THEN translate_swizzle(color_surface.colorFormat)
            ELSE IF want_color
                 THEN translate_swizzle([base |-> target, swz |-> color.swizz_raw])
                 ELSE NULL
        only_nearest ==
            IF want_ds /\ ds # 0 THEN TRUE
            ELSE IF want_color THEN is_write_surface_non_linearity_filtering(target)
            ELSE FALSE
        filter == ApplyFilter(only_nearest, [min |-> Untouched, mag |-> Untouched])
    IN [NoCall EXCEPT
           !.op = "sync_texture", !.index = index, !.texture = texture,
           !.surface_address = color_surface.address,
           !.repeated = IsRepeat(index, texture),
           !.self_sample = self,
           !.color_query = IF want_color THEN ColorQueryKey(texture) ELSE NoQuery,
           !.color_hit = want_color /\ color.handle # 0,
           !.ds_query = IF want_ds THEN DepthStencilQueryKey(texture) ELSE NoQuery,
           !.ds_hit = want_ds /\ ds # 0,
           !.bind = texture_as_surface,
           !.swizzle_surface = swizzle_surface,
           !.only_nearest = only_nearest,
           !.params = IF NeedsUpload(texture_as_surface) THEN NoParams
                      ELSE [min |-> filter.min, mag |-> filter.mag,
                            swizzle |-> ReconcileSwizzle(base_format,
                                            translate_swizzle(texture.format),
                                            swizzle_surface, NoParams.swizzle)],
           !.upload = IF ~NeedsUpload(texture_as_surface) THEN "none"
                      ELSE IF texture_cache THEN "cache_and_bind_texture"
                      ELSE "bind_texture"]

\* sync_texture returning early: a warning and nothing else
SyncTextureRejected(index, texture) ==
    /\ IsRejected(mem_blocks, texture)
    /\ last' = [NoCall EXCEPT !.op = "sync_texture", !.index = index,
                              !.texture = texture, !.rejected = TRUE,
                              !.surface_address = color_surface.address,
                              !.repeated = IsRepeat(index, texture)]
    /\ passed_match' = [passed_match EXCEPT ![index] =
                            (ShiftAddr(texture.data_addr) = color_surface.address)]
    /\ UNCHANGED <<mem_blocks, color_surface, current_color_attachment, color_surfaces,
                   ds_surfaces, texture_cache, self_sampling_indices, fragment_textures,
                   vertex_textures, gl_bound, accepted_match, swizzle_vars,
                   attribute_vars, vertex_vars>>

\* the shader format hint of the unit
SetHints(index, format) ==
    IF index >= SCE_GXM_MAX_TEXTURE_UNITS
    THEN /\ vertex_textures' =
               [vertex_textures EXCEPT ![index - SCE_GXM_MAX_TEXTURE_UNITS] = format]
         /\ UNCHANGED fragment_textures
    ELSE /\ fragment_textures' = [fragment_textures EXCEPT ![index] = format]
         /\ UNCHANGED vertex_textures

\* sync_texture past the two checks
SyncTextureResolved(index, texture) ==
    /\ ~IsRejected(mem_blocks, texture)
    /\ \E r \in {Resolve(index, texture)} :
          /\ SetHints(index, texture.format)
          /\ self_sampling_indices' =
                 IF r.self_sample THEN SelfSamplingInsert(self_sampling_indices, index)
                 ELSE SelfSamplingErase(self_sampling_indices, index)
          /\ gl_bound' = [gl_bound EXCEPT ![index] =
                 IF r.upload = "none" THEN r.bind ELSE TextureCacheHandle(texture)]
          /\ last' = r
    /\ accepted_match' = [accepted_match EXCEPT ![index] =
                              (ShiftAddr(texture.data_addr) = color_surface.address)]
    /\ passed_match' = [passed_match EXCEPT ![index] =
                            (ShiftAddr(texture.data_addr) = color_surface.address)]
    /\ UNCHANGED <<mem_blocks, color_surface, current_color_attachment, color_surfaces,
                   ds_surfaces, texture_cache, swizzle_vars, attribute_vars,
                   vertex_vars>>

sync_texture(index, texture) ==
    \/ SyncTextureRejected(index, texture)
    \/ SyncTextureResolved(index, texture)

(***************************************************************************)
(* The surroundings of sync_texture: a scene begins on a render target     *)
(* (its surfaces enter the surface cache), guest memory is freed or mapped.*)
(***************************************************************************)
set_context(scene) ==
    /\ color_surface' = [address |-> scene.address, colorFormat |-> scene.colorFormat]
    /\ current_color_attachment' = scene.attachment
    /\ color_surfaces' = color_surfaces \cup {ColorEntry(scene)}
    /\ ds_surfaces' = IF scene.ds_handle # 0 THEN ds_surfaces \cup {DepthStencilEntry(scene)}
                      ELSE ds_surfaces
    /\ last' = NoCall
    /\ UNCHANGED <<mem_blocks, texture_cache, self_sampling_indices, fragment_textures,
                   vertex_textures, gl_bound, passed_match, accepted_match,
                   swizzle_vars, attribute_vars, vertex_vars>>

free_memory(block) ==
    /\ block \in mem_blocks
    /\ mem_blocks' = mem_blocks \ {block}
    /\ last' = NoCall
    /\ UNCHANGED <<color_surface, current_color_attachment, color_surfaces, ds_surfaces,
                   texture_cache, self_sampling_indices, fragment_textures,
                   vertex_textures, gl_bound, passed_match, accepted_match,
                   swizzle_vars, attribute_vars, vertex_vars>>

alloc_memory(block) ==
    /\ block \notin mem_blocks
    /\ mem_blocks' = mem_blocks \cup {block}
    /\ last' = NoCall
    /\ UNCHANGED <<color_surface, current_color_attachment, color_surfaces, ds_surfaces,
                   texture_cache, self_sampling_indices, fragment_textures,
                   vertex_textures, gl_bound, passed_match, accepted_match,
                   swizzle_vars, attribute_vars, vertex_vars>>

InitialScene == CHOOSE s \in Scenes : s.attachment = 1

TextureInit ==
    /\ mem_blocks = Addrs
    /\ color_surface = [address |-> InitialScene.address, colorFormat |-> InitialScene.colorFormat]
    /\ current_color_attachment = InitialScene.attachment
    /\ color_surfaces = {ColorEntry(InitialScene)}
    /\ ds_surfaces = {}
    /\ texture_cache \in BOOLEAN
    /\ self_sampling_indices = <<>>
    /\ fragment_textures = [i \in {u \in Units : u < SCE_GXM_MAX_TEXTURE_UNITS} |-> NoFormat]
    /\ vertex_textures = [i \in {u - SCE_GXM_MAX_TEXTURE_UNITS :
                                    u \in {x \in Units : x >= SCE_GXM_MAX_TEXTURE_UNITS}} |-> NoFormat]
    /\ gl_bound = [u \in Units |-> 0]
    /\ passed_match = [u \in Units |-> FALSE]
    /\ accepted_match = [u \in Units |-> FALSE]
    /\ last = NoCall

(***************************************************************************)
(* Swizzle reconciliation on its own: a declared swizzle and a surface     *)
(* swizzle are drawn, and the reconciliation of lines 373-401 is applied   *)
(* to the host parameters of the bound surface texture, more than once.    *)
(***************************************************************************)
\* number of reconciliations made with one pair
MaxReconciliations == 2

AllSwizzles == [1..4 -> Channels]

SurfaceSwizzles ==
    {translate_swizzle([base |-> "U8U8U8U8", swz |-> m]) : m \in SwizzleModes}

SwizzleInit ==
    /\ sw_base \in {"U8U8U8U8", "X8U24"}
    /\ sw_declared \in AllSwizzles \cup {NULL}
    /\ sw_surface \in {sw_declared} \cup SurfaceSwizzles \cup {NULL}
    /\ sw_params \in {default_rgba, <<GL_ONE, GL_ONE, GL_ONE, GL_ONE>>}
    /\ sw_first = NULL
    /\ sw_applied = 0

reconcile_swizzle ==
    /\ sw_applied < MaxReconciliations
    /\ sw_params' = ReconcileSwizzle(sw_base, sw_declared, sw_surface, sw_params)
    /\ sw_first' = IF sw_applied = 0 THEN sw_params' ELSE sw_first
    /\ sw_applied' = sw_applied + 1
    /\ UNCHANGED <<sw_base, sw_declared, sw_surface, texture_vars, attribute_vars,
                   vertex_vars>>

(***************************************************************************)
(* sync_vertex_streams_and_attributes: the attribute layout.               *)
(***************************************************************************)
SCE_GXM_MAX_VERTEX_STREAMS == 4

AttributeFormats == {"U8", "U8N", "S16", "S16N", "F16", "F32", "UNTYPED"}

\* gxm::attribute_format_size: bytes of one component
attribute_format_size(format) ==
    CASE format \in {"U8", "U8N"} -> 1
      [] format \in {"S16", "S16N"} -> 2
      [] format = "F16" -> 2
      [] format = "F32" -> 4
      [] OTHER -> 4

attribute_format_to_gl_type(format) ==
    CASE format \in {"U8", "U8N"} -> "GL_UNSIGNED_BYTE"
      [] format \in {"S16", "S16N"} -> "GL_SHORT"
      [] format = "F16" -> "GL_HALF_FLOAT"
      [] format = "F32" -> "GL_FLOAT"
      [] OTHER -> "GL_UNSIGNED_INT"

attribute_format_normalised(format) == format \in {"U8N", "S16N"}

is_stream_instancing(index_source) ==
    index_source \in {"INSTANCE_16BIT", "INSTANCE_32BIT"}

\* the integral SceGxmParameterType values of the switch
IsIntegralParameterType(gxm_type) ==
    gxm_type \in {"U8", "S8", "U16", "S16", "U32", "S32"}

\* effective component count of a register-formatted attribute, a uint8_t
RegformatComponentCount(comp_size, component_count) ==
    ((comp_size * component_count + 3) \div 4) % 256

\* mutant: the division rounds down
ArraySize_RoundDown(component_count) ==
    IF component_count > 4 THEN component_count \div 4 ELSE 1

\* number of host locations of a register-formatted attribute
ArraySize(component_count) ==
    IF component_count > 4 THEN (component_count + 3) \div 4 ELSE 1

\* 4 * sizeof(int32_t) between two elements of a matrix attribute, else 0
ArrayElementSize(component_count) ==
    IF component_count > 4 THEN 4 * 4 ELSE 0

\* the host calls of one attribute with a known location: one
\* glVertexAttrib(I)Pointer, enable and divisor per array element
BindAttribute(attribute, info, stream, base_offset) ==
    LET n == IF info.regformat
             THEN RegformatComponentCount(attribute_format_size(attribute.format),
                                          attribute.componentCount)
             ELSE attribute.componentCount
        array_size == IF info.regformat THEN ArraySize(n) ELSE 1
        array_element_size == IF info.regformat THEN ArrayElementSize(n) ELSE 0
        component_count == IF info.regformat /\ n > 4 THEN 4 ELSE n
        type == IF info.regformat THEN "GL_INT"
                ELSE attribute_format_to_gl_type(attribute.format)
        upload_integral == IF info.regformat THEN TRUE
                           ELSE IsIntegralParameterType(info.gxm_type)
    IN [e \in 1..array_size |->
           [location |-> info.location + (e - 1),
            size |-> component_count,
            type |-> type,
            integral |-> (upload_integral \/ attribute.format = "UNTYPED"),
            normalised |-> attribute_format_normalised(attribute.format),
            stride |-> stream.stride,
            pointer |-> (e - 1) * array_element_size + attribute.offset + base_offset,
            enabled |-> TRUE,
            divisor |-> IF is_stream_instancing(stream.indexSource) THEN 1 ELSE 0,
            regIndex |-> attribute.regIndex,
            streamIndex |-> attribute.streamIndex,
            element |-> e - 1]]

(***************************************************************************)
(* The attribute layout on its own: an attribute, its shader information   *)
(* and the base offset of its stream are drawn, and the attribute is bound.*)
(***************************************************************************)
\* largest declared component count of a drawn attribute
MaxComponentCount == 20
\* largest byte offset of a drawn attribute, and largest stream base offset
MaxAttributeOffset == 1
\* largest host location of a drawn attribute
MaxLocation == 1

AttributeInit ==
    /\ at_attribute \in [regIndex : {0}, streamIndex : {0},
                         offset : 0..MaxAttributeOffset,
                         format : AttributeFormats,
                         componentCount : 0..MaxComponentCount]
    /\ at_info \in [location : 0..MaxLocation, regformat : BOOLEAN,
                    gxm_type : {"F32", "U8"}]
    /\ at_stream \in [stride : {24}, indexSource : {"INDEX_16BIT", "INSTANCE_16BIT"}]
    /\ at_base \in 0..MaxAttributeOffset
    /\ at_bindings = <<>>

bind_attribute ==
    /\ at_bindings = <<>>
    /\ at_bindings' = BindAttribute(at_attribute, at_info, at_stream, at_base)
    /\ UNCHANGED <<at_attribute, at_info, at_stream, at_base, texture_vars, swizzle_vars,
                   vertex_vars>>

(***************************************************************************)
(* sync_vertex_streams_and_attributes: staging the streams in the ring     *)
(* buffer and binding the attributes of the vertex program.                *)
(***************************************************************************)
\* capacity in bytes of the vertex stream ring buffer
RingCapacity == 3
\* largest byte length of the data attached to one stream
MaxStreamSize == 2

StreamIndices == 0..(SCE_GXM_MAX_VERTEX_STREAMS - 1)

\* the streams the guest attaches data to: the two the programs read
DataStreams == {0, 1}

NoData == [data |-> 0, size |-> 0]

\* the vertex programs of the model: attributes, streams, the program body
\* and the attribute information the shader analysis found
Programs ==
    <<[attributes |->
           <<[regIndex |-> 0, streamIndex |-> 0, offset |-> 0, format |-> "F32",
              componentCount |-> 5],
             [regIndex |-> 8, streamIndex |-> 0, offset |-> 20, format |-> "U8",
              componentCount |-> 4],
             [regIndex |-> 12, streamIndex |-> 1, offset |-> 0, format |-> "F32",
              componentCount |-> 2]>>,
       streams |-> [i \in StreamIndices |->
                       IF i = 1 THEN [stride |-> 8, indexSource |-> "INSTANCE_16BIT"]
                       ELSE [stride |-> 24, indexSource |-> "INDEX_16BIT"]],
       has_body |-> TRUE, primary_reg_count |-> 16,
       infos |-> {[regIndex |-> 0, location |-> 0, regformat |-> TRUE, gxm_type |-> "F32"],
                  [regIndex |-> 8, location |-> 2, regformat |-> FALSE, gxm_type |-> "U8"]}],
      [attributes |->
           <<[regIndex |-> 0, streamIndex |-> 1, offset |-> 4, format |-> "S16",
              componentCount |-> 3],
             [regIndex |-> 4, streamIndex |-> 0, offset |-> 0, format |-> "UNTYPED",
              componentCount |-> 1],
             [regIndex |-> 8, streamIndex |-> 0, offset |-> 4, format |-> "F32",
              componentCount |-> 3]>>,
       streams |-> [i \in StreamIndices |-> [stride |-> 16, indexSource |-> "INDEX_16BIT"]],
       has_body |-> TRUE, primary_reg_count |-> 0,
       infos |-> {[regIndex |-> 0, location |-> 1, regformat |-> TRUE, gxm_type |-> "F32"],
                  [regIndex |-> 4, location |-> 3, regformat |-> FALSE, gxm_type |-> "F32"]}]>>

HasInfo(infos, reg_index) == \E x \in infos : x.regIndex = reg_index

InfoAt(infos, reg_index) == CHOOSE x \in infos : x.regIndex = reg_index

\* the symbols inserted on the first call: attribute i gets location i as an
\* F32 attribute, unless its register index is known already (emplace)
RECURSIVE InsertStrippedSymbols(_, _, _)
InsertStrippedSymbols(infos, attributes, i) ==
    IF i > Len(attributes) THEN infos
    ELSE InsertStrippedSymbols(
             IF HasInfo(infos, attributes[i].regIndex) THEN infos
             ELSE infos \cup {[regIndex |-> attributes[i].regIndex, location |-> i - 1,
                               regformat |-> FALSE, gxm_type |-> "F32"]},
             attributes, i + 1)

CheckStrippedSymbols(checked, infos, program) ==
    IF ~checked /\ program.has_body /\ program.primary_reg_count # 0
    THEN InsertStrippedSymbols(infos, program.attributes, 1)
    ELSE infos

\* RingBuffer::allocate: a region of the free part, or no pointer when the
\* capacity is exhausted
RingAllocate(cursor, size) ==
    IF cursor + size <= RingCapacity
    THEN [ok |-> TRUE, offset |-> cursor, cursor |-> cursor + size]
    ELSE [ok |-> FALSE, offset |-> 0, cursor |-> cursor]

\* mutant: a stream counts as pending when its size is not zero
HasPendingData_BySize(stream) == stream.size # 0

\* the stream carries data to upload
HasPendingData(stream) == stream.data # 0

\* mutant: the offset the stream was staged at is kept
UnstagedOffset_Kept(staged) == IF staged >= 0 THEN staged ELSE 0

\* offset_in_buffer of a stream without pending data
UnstagedOffset(staged) == 0

NoStaging ==
    [allocs |-> <<>>, copies |-> <<>>, offsets |-> [i \in StreamIndices |-> 0],
     failed |-> {}, cursor |-> 0]

\* the loop over the streams; garbage[i] is what the uninitialized
\* offset_in_buffer[i] holds when the allocation of stream i fails
RECURSIVE StageStreams(_, _, _, _)
StageStreams(i, cursor, garbage, acc) ==
    IF i >= SCE_GXM_MAX_VERTEX_STREAMS THEN [acc EXCEPT !.cursor = cursor]
    ELSE IF HasPendingData(vertex_streams[i])
         THEN LET size == vertex_streams[i].size
                  result == RingAllocate(cursor, size)
              IN IF ~result.ok
                 THEN StageStreams(i + 1, result.cursor, garbage,
                          [acc EXCEPT !.allocs = Append(@, [stream |-> i, size |-> size,
                                                            ok |-> FALSE, offset |-> 0]),
                                      !.offsets[i] = garbage[i],
                                      !.failed = @ \cup {i}])
                 ELSE StageStreams(i + 1, result.cursor, garbage,
                          [acc EXCEPT !.allocs = Append(@, [stream |-> i, size |-> size,
                                                            ok |-> TRUE,
                                                            offset |-> result.offset]),
                                      !.copies = Append(@, [stream |-> i,
                                                            offset |-> result.offset,
                                                            size |-> size]),
                                      !.offsets[i] = result.offset])
         ELSE StageStreams(i + 1, cursor, garbage,
                  [acc EXCEPT !.offsets[i] = UnstagedOffset(staged_offset[i])])

\* the loop over the attributes of the program
RECURSIVE BindAttributes(_, _, _, _)
BindAttributes(program, infos, offsets, k) ==
    IF k > Len(program.attributes) THEN <<>>
    ELSE LET attribute == program.attributes[k]
         IN (IF ~HasInfo(infos, attribute.regIndex) THEN <<>>
             ELSE BindAttribute(attribute, InfoAt(infos, attribute.regIndex),
                                program.streams[attribute.streamIndex],
                                offsets[attribute.streamIndex]))
            \o BindAttributes(program, infos, offsets, k + 1)

NoDraw ==
    [op |-> "none", pending |-> [i \in StreamIndices |-> NoData],
     staged_before |-> [i \in StreamIndices |-> 0 - 1],
     allocs |-> <<>>, copies |-> <<>>, offsets |-> [i \in StreamIndices |-> 0],
     failed |-> {}, bindings |-> <<>>]

ZeroGarbage == [i \in StreamIndices |-> 0]

\* mutant: the stream is cleared only when its data was copied
StreamAfterStaging_KeptOnFailure(stream, copied) ==
    IF copied THEN [stream EXCEPT !.data = 0, !.size = 0] ELSE stream

\* the stream once the loop has handled its data, copied or not: the
\* reference is dropped and the size is zero
StreamAfterStaging(stream, copied) == [stream EXCEPT !.data = 0, !.size = 0]

sync_vertex_streams_and_attributes ==
    LET program == Programs[vertex_program]
        infos == CheckStrippedSymbols(stripped_symbols_checked, attribute_infos, program)
        failing == StageStreams(0, ring_cursor, ZeroGarbage, NoStaging).failed
    IN \E g \in [failing -> 0..RingCapacity] :
         \E staged \in {StageStreams(0, ring_cursor,
                            [i \in StreamIndices |-> IF i \in failing THEN g[i] ELSE 0],
                            NoStaging)} :
            /\ attribute_infos' = infos
            /\ stripped_symbols_checked' = TRUE
            /\ ring_cursor' = staged.cursor
            /\ vertex_streams' = [i \in StreamIndices |->
                                     IF HasPendingData(vertex_streams[i])
                                     THEN StreamAfterStaging(vertex_streams[i],
                                                             i \notin staged.failed)
                                     ELSE vertex_streams[i]]
            /\ staged_offset' = [i \in StreamIndices |->
                                    IF \E c \in 1..Len(staged.copies) : staged.copies[c].stream = i
                                    THEN staged.offsets[i] ELSE staged_offset[i]]
            /\ vlast' = [op |-> "sync", pending |-> vertex_streams,
                         staged_before |-> staged_offset,
                         allocs |-> staged.allocs, copies |-> staged.copies,
                         offsets |-> staged.offsets, failed |-> staged.failed,
                         bindings |-> BindAttributes(program, infos, staged.offsets, 1)]
            /\ UNCHANGED <<vertex_program, texture_vars, swizzle_vars, attribute_vars>>

\* the guest attaches data to a stream before a draw
set_vertex_data(i, size) ==
    /\ vertex_streams[i].data = 0
    /\ vertex_streams' = [vertex_streams EXCEPT ![i] = [data |-> 1, size |-> size]]
    /\ vlast' = NoDraw
    /\ UNCHANGED <<vertex_program, stripped_symbols_checked, attribute_infos, ring_cursor,
                   staged_offset, texture_vars, swizzle_vars, attribute_vars>>

\* the host has consumed the ring buffer: its regions are free again
ring_recycle ==
    /\ ring_cursor # 0
    /\ ring_cursor' = 0
    /\ vlast' = NoDraw
    /\ UNCHANGED <<vertex_program, stripped_symbols_checked, attribute_infos,
                   vertex_streams, staged_offset, texture_vars, swizzle_vars,
                   attribute_vars>>

VertexInit ==
    /\ vertex_program \in 1..Len(Programs)
    /\ stripped_symbols_checked = FALSE
    /\ attribute_infos = Programs[vertex_program].infos
    /\ vertex_streams = [i \in StreamIndices |-> NoData]
    /\ ring_cursor = 0
    /\ staged_offset = [i \in StreamIndices |-> 0 - 1]
    /\ vlast = NoDraw

(***************************************************************************)
(* The specifications.                                                     *)
(***************************************************************************)
TextureIdle ==
    /\ TextureInit
    /\ texture_cache = TRUE

SwizzleIdle ==
    /\ sw_base = "NONE"
    /\ sw_declared = NULL
    /\ sw_surface = NULL
    /\ sw_params = default_rgba
    /\ sw_first = NULL
    /\ sw_applied = 0

AttributeIdle ==
    /\ at_attribute = [regIndex |-> 0, streamIndex |-> 0, offset |-> 0,
                       format |-> "F32", componentCount |-> 0]
    /\ at_info = [location |-> 0, regformat |-> FALSE, gxm_type |-> "F32"]
    /\ at_stream = [stride |-> 0, indexSource |-> "INDEX_16BIT"]
    /\ at_base = 0
    /\ at_bindings = <<>>

VertexIdle ==
    /\ VertexInit
    /\ vertex_program = 1

Init == TextureInit /\ SwizzleIdle /\ AttributeIdle /\ VertexIdle

Next ==
    \/ \E index \in Units, texture \in Textures : sync_texture(index, texture)
    \/ \E scene \in Scenes : set_context(scene)
    \/ \E block \in FreeableBlocks : free_memory(block)
    \/ \E block \in FreeableBlocks : alloc_memory(block)

Spec == Init /\ [][Next]_vars

InitSwizzle == SwizzleInit /\ TextureIdle /\ AttributeIdle /\ VertexIdle

NextSwizzle == reconcile_swizzle

SpecSwizzle == InitSwizzle /\ [][NextSwizzle]_vars

InitAttribute == AttributeInit /\ TextureIdle /\ SwizzleIdle /\ VertexIdle

NextAttribute == bind_attribute

SpecAttribute == InitAttribute /\ [][NextAttribute]_vars

InitVertex == VertexInit /\ TextureIdle /\ SwizzleIdle /\ AttributeIdle

NextVertex ==
    \/ sync_vertex_streams_and_attributes
    \/ \E i \in DataStreams, size \in 0..MaxStreamSize : set_vertex_data(i, size)
    \/ ring_recycle

SpecVertex == InitVertex /\ [][NextVertex]_vars

(***************************************************************************)
(* Properties of sync_texture.                                             *)
(***************************************************************************)
InSelfSamplingSet(u) ==
    \E k \in 1..Len(self_sampling_indices) : self_sampling_indices[k] = u

LastAddress == ShiftAddr(last.texture.data_addr)

\* C1 as stated: for every call of sync_texture on unit u whose texture address
\* equals the color surface address, the unit is bound to the live color
\* attachment and is in the self-sampling set afterwards; after a call for u
\* whose address differs, u is not in the set.
C1_AsStated ==
    last.op = "sync_texture" =>
        /\ (LastAddress = last.surface_address =>
                /\ last.self_sample
                /\ gl_bound[last.index] = current_color_attachment
                /\ InSelfSamplingSet(last.index))
        /\ (LastAddress # last.surface_address => ~InSelfSamplingSet(last.index))

\* C1 amended: for every call of sync_texture on unit u that passes the two
\* validity checks (valid memory range, no paletted format with a null palette)
\* and whose texture address equals the color surface address, the call binds
\* the live color attachment to u and u is in the self-sampling set afterwards;
\* after such a call whose address differs, u is not in the set.
C1_SelfSampleFollowsAddress ==
    (last.op = "sync_texture" /\ ~last.rejected) =>
        /\ (LastAddress = last.surface_address =>
                /\ last.self_sample
                /\ last.bind = current_color_attachment
                /\ gl_bound[last.index] = current_color_attachment
                /\ InSelfSamplingSet(last.index))
        /\ (LastAddress # last.surface_address =>
                /\ ~last.self_sample
                /\ ~InSelfSamplingSet(last.index))

\* a unit left the set: its descriptor had the color surface address, and the
\* latest call for it, with another address, was resolved
C1_Witness ==
    /\ last.op = "sync_texture" /\ ~last.rejected
    /\ LastAddress # last.surface_address
    /\ ~InSelfSamplingSet(last.index)
    /\ \E u \in Units : u # last.index /\ InSelfSamplingSet(u)
                        /\ gl_bound[u] = current_color_attachment

\* C2 as stated: every unit in the self-sampling set has, as the address of the
\* descriptor most recently passed to sync_texture for it (rejected or not), the
\* color surface address of that call.
C2_AsStated ==
    \A u \in Units : InSelfSamplingSet(u) => passed_match[u]

\* C2 amended: every unit in the self-sampling set has, as the address of the
\* descriptor most recently passed to sync_texture for it and not rejected, the
\* color surface address of that call.
C2_SetHoldsOnlyMatchingUnits ==
    \A u \in Units : InSelfSamplingSet(u) => accepted_match[u]

\* a unit stays in the set over a rejected descriptor with another address
C2_Witness ==
    \E u \in Units : InSelfSamplingSet(u) /\ accepted_match[u] /\ ~passed_match[u]

\* C3: one call binds the unit from at most one source; a call at the color
\* surface address makes no surface cache lookup and no upload, and a call in
\* which a surface cache lookup returned a handle makes no upload.
C3_OneBindingSource ==
    last.op = "sync_texture" =>
        /\ Cardinality({x \in {"self", "alias", "upload"} :
                \/ (x = "self" /\ last.self_sample /\ last.bind # 0)
                \/ (x = "alias" /\ (last.color_hit \/ last.ds_hit))
                \/ (x = "upload" /\ last.upload # "none")}) <= 1
        /\ (LastAddress = last.surface_address =>
                /\ last.color_query = NoQuery /\ last.ds_query = NoQuery
                /\ ~last.color_hit /\ ~last.ds_hit
                /\ last.upload = "none")
        /\ ((last.color_hit \/ last.ds_hit) =>
                /\ last.upload = "none"
                /\ gl_bound[last.index] = last.bind
                /\ last.bind \in SurfaceHandles)

\* a call bound a handle the color surface cache returned
C3_Witness ==
    /\ last.op = "sync_texture" /\ last.color_hit
    /\ last.upload = "none" /\ gl_bound[last.index] = last.bind

\* the descriptor is one the claim C4 is about
Unacceptable(mem, texture) ==
    \/ ~(\E b \in mem : /\ b <= ShiftAddr(texture.data_addr)
                        /\ ShiftAddr(texture.data_addr) + texture_size(texture) <= b + BlockLen)
    \/ (texture.format.base = "P8" /\ texture.palette_addr = 0)

\* C4: a call with a descriptor whose range is not valid in guest memory, or
\* with a paletted base format and a null palette, leaves the unit's binding,
\* the shader format hints and the self-sampling set unchanged, writes no
\* filter or swizzle parameter, and makes no cache lookup and no upload.
C4_RejectedCallChangesNothing ==
    [][(last'.op = "sync_texture" /\ Unacceptable(mem_blocks, last'.texture)) =>
          /\ gl_bound' = gl_bound
          /\ fragment_textures' = fragment_textures
          /\ vertex_textures' = vertex_textures
          /\ self_sampling_indices' = self_sampling_indices
          /\ last'.params = NoParams /\ last'.bind = 0
          /\ last'.color_query = NoQuery /\ last'.ds_query = NoQuery
          /\ last'.upload = "none"]_vars

\* a rejected call for a unit that is bound and in the self-sampling set
C4_Witness ==
    /\ last.op = "sync_texture" /\ last.rejected
    /\ Unacceptable(mem_blocks, last.texture)
    /\ gl_bound[last.index] # 0
    /\ InSelfSamplingSet(last.index)

\* C5: a call with the unit and descriptor of the call right before it, with
\* the record and the surface cache as they were, makes the same surface
\* cache queries, binds the same handle, and leaves the self-sampling set as
\* the first call left it, the unit in it at most once.
C5_ResolutionIdempotent ==
    [][(/\ last.op = "sync_texture" /\ last'.op = "sync_texture"
        /\ last'.index = last.index /\ last'.texture = last.texture
        /\ UNCHANGED <<color_surface, current_color_attachment, color_surfaces,
                       ds_surfaces, mem_blocks, texture_cache>>) =>
          /\ last'.color_query = last.color_query
          /\ last'.ds_query = last.ds_query
          /\ last'.bind = last.bind
          /\ last'.upload = last.upload
          /\ gl_bound'[last.index] = gl_bound[last.index]
          /\ self_sampling_indices' = self_sampling_indices
          /\ Cardinality({k \in 1..Len(self_sampling_indices') :
                            self_sampling_indices'[k] = last.index}) <= 1]_vars

\* a repeated call that found the same cached surface and one unit in the set
C5_Witness ==
    /\ last.op = "sync_texture" /\ last.repeated /\ ~last.rejected
    /\ \E u \in Units : InSelfSamplingSet(u)
    /\ last.color_hit

C6_EqualSwizzlesGiveIdentity ==
    (/\ sw_applied >= 1 /\ sw_base # "X8U24" /\ sw_declared # NULL
     /\ \A i \in 1..4 : sw_surface # NULL /\ sw_surface[i] = sw_declared[i]) =>
        /\ sw_first = <<GL_RED, GL_GREEN, GL_BLUE, GL_ALPHA>>
        /\ sw_params = sw_first

\* C6 witness: an equal pair that is not the identity itself, reconciled twice over host
\* parameters that were not the identity
C6_Witness ==
    /\ sw_applied = 2 /\ sw_base # "X8U24"
    /\ sw_declared = <<GL_BLUE, GL_ZERO, GL_RED, GL_ONE>>
    /\ sw_surface = sw_declared
    /\ sw_first # sw_declared
    /\ sw_params = <<GL_RED, GL_GREEN, GL_BLUE, GL_ALPHA>>

(***************************************************************************)
(* Properties of the attribute layout (specification SpecAttribute).       *)
(***************************************************************************)
\* ceil(s * c / 4) for the drawn attribute
RegisterCount ==
    (attribute_format_size(at_attribute.format) * at_attribute.componentCount + 3) \div 4

RegformatBound == at_info.regformat /\ at_bindings # <<>>

\* C7: a register-formatted attribute of n = ceil(s*c/4) registers at location L
\* is bound as one integer location L with n components when n <= 4, and as
\* ceil(n/4) consecutive locations L, L+1, ... of 4 integer components when
\* n > 4, element i at byte offset i*16 + attribute offset + stream base offset.
C7_RegformatLayout ==
    RegformatBound =>
        LET n == RegisterCount
            L == at_info.location
        IN IF n <= 4
           THEN /\ Len(at_bindings) = 1
                /\ at_bindings[1].location = L
                /\ at_bindings[1].integral
                /\ at_bindings[1].type = "GL_INT"
                /\ at_bindings[1].size = n
                /\ at_bindings[1].pointer = at_attribute.offset + at_base
           ELSE /\ Len(at_bindings) = (n + 3) \div 4
                /\ \A e \in 1..Len(at_bindings) :
                     /\ at_bindings[e].location = L + (e - 1)
                     /\ at_bindings[e].integral
                     /\ at_bindings[e].type = "GL_INT"
                     /\ at_bindings[e].size = 4
                     /\ at_bindings[e].pointer
                            = (e - 1) * 16 + at_attribute.offset + at_base

\* C7 witness: a 20 byte register-formatted attribute bound at two locations
\* 16 bytes apart
C7_Witness ==
    /\ RegformatBound
    /\ attribute_format_size(at_attribute.format) * at_attribute.componentCount = 20
    /\ Len(at_bindings) = 2
    /\ at_bindings[2].location = at_bindings[1].location + 1
    /\ at_bindings[2].pointer = at_bindings[1].pointer + 16

(***************************************************************************)
(* Properties of the stream staging (specification SpecVertex).            *)
(***************************************************************************)
Synced == vlast.op = "sync"

\* the streams that carried data when the last call started
PendingStreams == {i \in StreamIndices : vlast.pending[i].data # 0}

AllocsOf(i) == {k \in 1..Len(vlast.allocs) : vlast.allocs[k].stream = i}

CopiesOf(i) == {k \in 1..Len(vlast.copies) : vlast.copies[k].stream = i}

\* the bytes [offset, offset + size) of the ring buffer
RingRange(offset, size) == {x \in 0..(offset + size) : offset <= x /\ x < offset + size}

\* one allocator call per pending stream, in increasing stream order, each
\* with the byte length of its stream
AllocatedInOrder ==
    /\ Len(vlast.allocs) = Cardinality(PendingStreams)
    /\ \A k \in 1..Len(vlast.allocs) :
         /\ vlast.allocs[k].stream \in PendingStreams
         /\ vlast.allocs[k].size = vlast.pending[vlast.allocs[k].stream].size
    /\ \A j, k \in 1..Len(vlast.allocs) :
         j < k => vlast.allocs[j].stream < vlast.allocs[k].stream

\* exactly size bytes of stream i were copied to its recorded offset
CopiedToOwnRange(i) ==
    /\ Cardinality(CopiesOf(i)) = 1
    /\ \A k \in CopiesOf(i) :
         /\ vlast.copies[k].size = vlast.pending[i].size
         /\ vlast.copies[k].offset = vlast.offsets[i]

RangesDisjoint(streams) ==
    \A i, j \in streams :
        i # j => RingRange(vlast.offsets[i], vlast.pending[i].size)
                     \cap RingRange(vlast.offsets[j], vlast.pending[j].size) = {}

\* C8 as stated: N allocator calls in stream order with the stream sizes, N
\* pairwise non-overlapping recorded ranges, and size bytes of each of the N
\* streams copied into its own range.
C8_AsStated ==
    Synced =>
        /\ AllocatedInOrder
        /\ RangesDisjoint(PendingStreams)
        /\ \A i \in PendingStreams : CopiedToOwnRange(i)

\* C8 amended: N allocator calls in stream order with the stream sizes; the
\* streams whose allocation succeeded have pairwise non-overlapping ranges and
\* size bytes of each copied into its own range; a stream whose allocation
\* failed has no copy, and no stream without pending data has one.
C8_StagedRangesDisjoint ==
    Synced =>
        /\ AllocatedInOrder
        /\ vlast.failed \subseteq PendingStreams
        /\ RangesDisjoint(PendingStreams \ vlast.failed)
        /\ \A i \in PendingStreams \ vlast.failed : CopiedToOwnRange(i)
        /\ \A i \in StreamIndices \ (PendingStreams \ vlast.failed) : CopiesOf(i) = {}

\* C8 witness: two streams with data staged in one call, both non-empty
C8_Witness ==
    /\ Synced
    /\ Cardinality(PendingStreams) >= 2
    /\ vlast.failed = {}
    /\ \A i \in PendingStreams : vlast.pending[i].size > 0
    /\ Len(vlast.copies) = Cardinality(PendingStreams)

\* the attribute of the current program a binding was made for
AttributeOf(binding) ==
    LET attributes == Programs[vertex_program].attributes
    IN attributes[CHOOSE k \in 1..Len(attributes) :
                      attributes[k].regIndex = binding.regIndex]

BindingsOf(i) == {k \in 1..Len(vlast.bindings) : vlast.bindings[k].streamIndex = i}

\* every attribute reading stream i is bound at element offset + attribute
\* offset + base
BoundAtBase(i, base) ==
    \A k \in BindingsOf(i) :
        vlast.bindings[k].pointer
            = vlast.bindings[k].element * 16 + AttributeOf(vlast.bindings[k]).offset + base

\* C10 as stated: a stream without pending data that a prior call staged at
\* offset o gets no allocation and no copy, and its attributes keep base o.
C10_AsStated ==
    Synced =>
        \A i \in StreamIndices \ PendingStreams :
            vlast.staged_before[i] >= 0 =>
                /\ AllocsOf(i) = {}
                /\ CopiesOf(i) = {}
                /\ BoundAtBase(i, vlast.staged_before[i])

\* C10 amended: a stream without pending data gets no allocation and no copy,
\* and every attribute reading it is bound with base offset 0, whatever offset
\* a prior call staged the stream at.
C10_UnstagedStreamBoundAtZero ==
    Synced =>
        \A i \in StreamIndices \ PendingStreams :
            /\ AllocsOf(i) = {}
            /\ CopiesOf(i) = {}
            /\ BoundAtBase(i, 0)

\* C10 witness: a stream staged at a non-zero offset by a prior call has no
\* data in the last call and an attribute was bound for it
C10_Witness ==
    /\ Synced
    /\ \E i \in StreamIndices \ PendingStreams :
         /\ vlast.staged_before[i] > 0
         /\ BindingsOf(i) # {}

\* every attribute of the program with a known register index has a binding
AllAttributesBound ==
    LET attributes == Programs[vertex_program].attributes
    IN \A k \in 1..Len(attributes) :
         HasInfo(attribute_infos, attributes[k].regIndex) =>
             \E b \in 1..Len(vlast.bindings) :
                 vlast.bindings[b].regIndex = attributes[k].regIndex

\* C11: when sync_vertex_streams_and_attributes returns, every stream that had
\* pending data has no data reference and size 0, whether its allocation
\* succeeded or failed; a failed stream has no copy, every pending stream still
\* had its allocator call and every known attribute its binding; and a call
\* that directly follows another call makes no allocation and no copy.
C11_SingleUploadPerDraw ==
    [][vlast'.op = "sync" =>
         /\ \A i \in StreamIndices :
              vlast'.pending[i].data # 0 =>
                  vertex_streams'[i].data = 0 /\ vertex_streams'[i].size = 0
         /\ \A i \in vlast'.failed :
              \A c \in 1..Len(vlast'.copies) : vlast'.copies[c].stream # i
         /\ AllocatedInOrder'
         /\ AllAttributesBound'
         /\ (vlast.op = "sync" => vlast'.allocs = <<>> /\ vlast'.copies = <<>>)]_vars

\* C11 witness: a call in which one stream's allocation failed and a later
\* stream was still staged and the attributes bound, all streams left cleared
C11_Witness ==
    /\ Synced
    /\ \E i \in vlast.failed : \E c \in 1..Len(vlast.copies) : vlast.copies[c].stream > i
    /\ vlast.bindings # <<>>
    /\ \A i \in StreamIndices : vertex_streams[i] = NoData

\* the host locations bound in the last call for one register index
LocationsOf(reg_index) ==
    {vlast.bindings[b].location :
        b \in {k \in 1..Len(vlast.bindings) : vlast.bindings[k].regIndex = reg_index}}

BoundRegisters == {vlast.bindings[b].regIndex : b \in 1..Len(vlast.bindings)}

\* C12: within one call of sync_vertex_streams_and_attributes the sets of host
\* locations bound for two attributes with distinct register indices are
\* disjoint, the locations of symbols inserted on the first call included.
C12_AsStated ==
    Synced =>
        \A r1, r2 \in BoundRegisters :
            r1 # r2 => LocationsOf(r1) \cap LocationsOf(r2) = {}

(***************************************************************************)
(* Properties of the remap loop (specification SpecSwizzle).               *)
(***************************************************************************)
IsFixedValue(channel) == channel \notin {GL_RED, GL_GREEN, GL_BLUE, GL_ALPHA}

\* j is the first position of the surface swizzle holding the channel
FirstPosition(surface, channel, j) ==
    /\ surface[j] = channel
    /\ \A m \in 1..(j - 1) : surface[m] # channel

\* C13: with a declared swizzle T and a surface swizzle S that differ, every
\* output channel i is assigned in the call: T[i] itself when T[i] is a fixed
\* value, else the host channel RED + j of the first position j with
\* S[j] = T[i]; no channel is left as it was before the call.
C13_AsStated ==
    (/\ sw_applied >= 1 /\ sw_base # "X8U24"
     /\ sw_declared # NULL /\ sw_surface # NULL /\ sw_declared # sw_surface) =>
        \A i \in 1..4 :
            IF IsFixedValue(sw_declared[i])
            THEN sw_first[i] = sw_declared[i]
            ELSE \E j \in 1..4 :
                    /\ FirstPosition(sw_surface, sw_declared[i], j)
                    /\ sw_first[i] = GL_RED + (j - 1)

====
